---- MODULE Spec2Model ----
(***************************************************************************)
(* Model of backend/lambda/app.py: the dashboard API's Lambda handler.     *)
(*                                                                         *)
(* Representation.                                                         *)
(*  - A path string is held as its '/'-split: the non-empty sequence of    *)
(*    its segments ('/api/users' is <<"", "api", "users">>, '' is <<"">>,  *)
(*    '/api/dashboard/' is <<"", "api", "dashboard", "">>).  The split is  *)
(*    a bijection between strings and non-empty segment sequences, so      *)
(*    equality, startswith of a prefix ending in '/' and split('/')[-1]    *)
(*    are exact on it.                                                     *)
(*  - A response body is the sequence of JSON documents the body string    *)
(*    holds: <<>> for '' and <<data>> for json.dumps(data).                *)
(*  - A store attribute value carries its DynamoDB type: [N |-> n] is a    *)
(*    number, [S |-> s] a string.  Attainment numbers are in tenths of a   *)
(*    percent (85.0 is 850); a float that is a ratio is [num, den].        *)
(*  - A raised exception is a result [raised |-> TRUE, exc |-> name].      *)
(*  - Lines 110-118 of the source are mis-indented (the file does not      *)
(*    compile as it stands); the handler is modelled with the dictionary   *)
(*    and the return of lines 114-118 inside `if metrics_items:`.          *)
(***************************************************************************)
EXTENDS Integers, Sequences, FiniteSets, TLC

\* ---------------------------------------------------------------- bounds
\* Longest request path, in segments.
MaxSegs == 4
\* Longest list of team members the store returns.
MaxTeam == 2
\* Longest list of team members handed to _calculate_team_summary on its own.
MaxList == 3

\* ------------------------------------------------------- program constants
OnTrackThreshold == 800
VariationModulus == 30
TeamHashModulus == 20
TeamBaseAttainment == 850
SampleTeamSize == 2

\* --------------------------------------------------------------- inputs
\* A string that str.encode() cannot encode (a lone surrogate, as
\* json.loads produces it from the escape \udc80).
LoneSurrogate == "\\udc80"

Segments == {"", "api", "users", "dashboard", "team-dashboard",
             "mjohnson", "as", LoneSurrogate}

\* A path starts with '/' or with a name.
FirstSegments == {"", "api"}

Methods == {"GET", "POST", "OPTIONS"}

\* The key is not in the event.
NoKey == "<no key>"

\* hash(s) of the interpreter's str hash: any integer, fixed for the life of
\* one process and drawn anew (PYTHONHASHSEED) by the next one.
HashValues == {-1, 20}

SampleTeamAliases == {"jsmith", "mjohnson"}

HashSeeds == [SampleTeamAliases -> HashValues]

Num(n) == [N |-> n]
Str(s) == [S |-> s]
IsNumber(v) == DOMAIN v = {"N"}

\* Records of the metrics table, as the store may hold them.
GoodMetric ==
    [metric_name |-> "win_rate", display_name |-> "Win Rate",
     actual_value |-> Num(63), annual_target |-> Num(70),
     attainment_percent |-> Num(90), metric_type |-> "percentage"]
PartialMetric == [metric_name |-> "pipeline"]
BadMetric == [metric_name |-> "win_rate", actual_value |-> Str("n/a")]

MetricItemLists == {<<>>, <<GoodMetric>>, <<PartialMetric>>, <<GoodMetric, BadMetric>>}

\* Records of the users table.
StoredUser ==
    [alias |-> "akim", name |-> "Ada Kim", job_title |-> "Solutions Architect",
     staff_level |-> "L5", supervisor |-> "manager1", region |-> "EU West"]

UserItemLists == {<<>>, <<StoredUser>>}

\* Records the team scan returns: overall_attainment a number, a string or absent.
AttainmentValues == {799, 800, 801}

TeamItems ==
    {[alias |-> "akim", overall_attainment |-> Num(v)] : v \in AttainmentValues}
    \cup {[alias |-> "akim", overall_attainment |-> Str("high")], [alias |-> "akim"]}

BoundedSeq(S, n) == UNION {[1..k -> S] : k \in 0..n}

TeamItemLists == BoundedSeq(TeamItems, MaxTeam)

\* What one store call does: it raises, or it returns a response with Items.
StoreFault == [read |-> TRUE, fault |-> TRUE, items |-> <<>>]
StoreItems(items) == [read |-> TRUE, fault |-> FALSE, items |-> items]
\* No store call was made.
NoRead == [read |-> FALSE, fault |-> FALSE, items |-> <<>>]

\* ------------------------------------------------------ pure helpers
Raise(exc) == [raised |-> TRUE, exc |-> exc]
Return(v) == [raised |-> FALSE, value |-> v]

Min(S) == CHOOSE x \in S : \A y \in S : x <= y

RECURSIVE SumSeq(_)
SumSeq(s) == IF s = <<>> THEN 0 ELSE Head(s) + SumSeq(Tail(s))

\* d.get(k, default)
Get(d, k, default) == IF k \in DOMAIN d THEN d[k] ELSE default

\* round(num / den) to an integer, ties to the even neighbour, as round() does
\* on a Decimal and on a float that holds the tie exactly.
RoundHalfEven(num, den) ==
    LET q == num \div den
        r == num % den
    IN  IF 2 * r < den THEN q
        ELSE IF 2 * r > den THEN q + 1
        ELSE IF q % 2 = 0 THEN q ELSE q + 1

CorsHeaders ==
    {<<"Content-Type", "application/json">>,
     <<"Access-Control-Allow-Origin", "*">>,
     <<"Access-Control-Allow-Methods", "GET, POST, OPTIONS">>,
     <<"Access-Control-Allow-Headers", "Content-Type, Authorization">>}

JsonDumps(data) == <<data>>
EmptyBody == <<>>

_success_response(data, headers) ==
    [statusCode |-> 200, headers |-> headers, body |-> JsonDumps(data)]

_error_response(status_code, message, headers) ==
    [statusCode |-> status_code, headers |-> headers,
     body |-> JsonDumps([error |-> message])]

LogEntry(level, message, detail) == [level |-> level, message |-> message, detail |-> detail]

\* What an invocation leaves behind: the response, the handler the router
\* dispatched to ("none" when it answered itself), the store reads issued, the
\* log lines written.
Outcome(resp, handler, reads, lines) ==
    [response |-> resp, handler |-> handler, reads |-> reads, log |-> lines]

_generate_sample_users ==
    << [alias |-> "jsmith", name |-> "John Smith",
        job_title |-> "Senior Solutions Architect", staff_level |-> "L6",
        supervisor |-> "manager1", region |-> "US East"],
       [alias |-> "mjohnson", name |-> "Mary Johnson",
        job_title |-> "Principal Solutions Architect", staff_level |-> "L7",
        supervisor |-> "manager1", region |-> "US West"],
       [alias |-> "rbrown", name |-> "Robert Brown",
        job_title |-> "Solutions Architect", staff_level |-> "L5",
        supervisor |-> "manager2", region |-> "US Central"] >>

\* Mutant: an unknown alias falls back to the last sample user.
_get_user_info_last(user_alias) ==
    LET users == _generate_sample_users
        found == {i \in 1..Len(users) : users[i].alias = user_alias}
        user == IF found # {} THEN users[Min(found)] ELSE users[Len(users)]
    IN  [user_alias |-> user.alias, user_name |-> user.name,
         job_title |-> user.job_title, staff_level |-> user.staff_level,
         supervisor |-> user.supervisor]

_get_user_info(user_alias) ==
    LET users == _generate_sample_users
        found == {i \in 1..Len(users) : users[i].alias = user_alias}
        user == IF found # {} THEN users[Min(found)] ELSE users[1]
    IN  [user_alias |-> user.alias, user_name |-> user.name,
         job_title |-> user.job_title, staff_level |-> user.staff_level,
         supervisor |-> user.supervisor]

\* str.encode(): UTF-8 has no encoding of a lone surrogate.
CanEncode(s) == s # LoneSurrogate

\* int(hashlib.md5(s.encode()).hexdigest()[:8], 16) as its two 16-bit halves
\* <<high, low>> (the 32-bit value does not fit TLC's integers).
MD5Prefix(s) ==
    CASE s = "" -> <<54301, 36057>>
      [] s = "api" -> <<35421, 42286>>
      [] s = "users" -> <<39878, 23594>>
      [] s = "dashboard" -> <<56433, 25022>>
      [] s = "team-dashboard" -> <<26226, 7711>>
      [] s = "jsmith" -> <<14798, 32298>>
      [] s = "mjohnson" -> <<44578, 58464>>
      [] s = "rbrown" -> <<30341, 8832>>
      [] s = "as" -> <<63856, 57974>>
      [] s = "z" -> <<64429, 59875>>

\* (high * 2^16 + low) % m
HashMod(h, m) == ((h[1] % m) * (65536 % m) + (h[2] % m)) % m

base_metrics ==
    << [metric_name |-> "revenue_target", display_name |-> "Revenue Target",
        annual_target |-> 1000000, metric_type |-> "currency"],
       [metric_name |-> "customer_engagements", display_name |-> "Customer Engagements",
        annual_target |-> 50, metric_type |-> "count"],
       [metric_name |-> "win_rate", display_name |-> "Win Rate",
        annual_target |-> 70, metric_type |-> "percentage"] >>

\* int(target * (0.75 + variation * 0.5)) with variation = k / 100: the factor is
\* (150 + k) / 200, and for every k in 0..29 and each of the three targets the
\* double-precision product truncates to the same integer as the exact one.
ActualValue(target, k) == (target * (150 + k)) \div 200

\* (actual / target) * 100 as the ratio it approximates.
AttainmentPercent(actual, target) == [num |-> actual * 100, den |-> target]

SampleMetric(metric_def, k) ==
    LET target == metric_def.annual_target
        actual == ActualValue(target, k)
    IN  [metric_name |-> metric_def.metric_name,
         display_name |-> metric_def.display_name,
         annual_target |-> target,
         metric_type |-> metric_def.metric_type,
         actual_value |-> actual,
         attainment_percent |-> AttainmentPercent(actual, target)]

_generate_user_dashboard(user_alias) ==
    LET user_info == _get_user_info(user_alias)
        k == HashMod(MD5Prefix(user_alias), VariationModulus)
    IN  IF ~CanEncode(user_alias) THEN Raise("UnicodeEncodeError")
        ELSE Return([user_alias |-> user_info.user_alias,
                     user_name |-> user_info.user_name,
                     job_title |-> user_info.job_title,
                     staff_level |-> user_info.staff_level,
                     supervisor |-> user_info.supervisor,
                     metrics |-> [i \in 1..Len(base_metrics) |->
                                     SampleMetric(base_metrics[i], k)]])

\* Mutant: the sample team is filtered by the requested manager.
_generate_sample_team_filtered(manager_alias, seed) ==
    LET all_users == SelectSeq(SubSeq(_generate_sample_users, 1, SampleTeamSize),
                               LAMBDA u : u.supervisor = manager_alias)
    IN  [i \in 1..Len(all_users) |->
            [user_alias |-> all_users[i].alias,
             name |-> all_users[i].name,
             job_title |-> all_users[i].job_title,
             overall_attainment |->
                 Num(TeamBaseAttainment + 10 * (seed[all_users[i].alias] % TeamHashModulus)),
             metrics_count |-> 3,
             on_track_metrics |-> 2,
             at_risk_metrics |-> 1]]

_generate_sample_team(manager_alias, seed) ==
    LET all_users == _generate_sample_users
    IN  [i \in 1..SampleTeamSize |->
            [user_alias |-> all_users[i].alias,
             name |-> all_users[i].name,
             job_title |-> all_users[i].job_title,
             overall_attainment |->
                 Num(TeamBaseAttainment + 10 * (seed[all_users[i].alias] % TeamHashModulus)),
             metrics_count |-> 3,
             on_track_metrics |-> 2,
             at_risk_metrics |-> 1]]

ZeroSummary ==
    [total_members |-> 0, avg_attainment |-> 0,
     members_on_track |-> 0, members_at_risk |-> 0]

\* m.get('overall_attainment', 0)
Attainment(m) == Get(m, "overall_attainment", Num(0))

\* Mutant: on track means strictly above the threshold.
_calculate_team_summary_gt(team_members) ==
    LET n == Len(team_members)
        vals == [i \in 1..n |-> Attainment(team_members[i])]
        total == SumSeq([i \in 1..n |-> vals[i].N])
        on_track == Cardinality({i \in 1..n : vals[i].N > OnTrackThreshold})
    IN  IF n = 0 THEN Return(ZeroSummary)
        ELSE IF \E i \in 1..n : ~IsNumber(vals[i]) THEN Raise("TypeError")
        ELSE Return([total_members |-> n,
                     avg_attainment |-> RoundHalfEven(total, n),
                     members_on_track |-> on_track,
                     members_at_risk |-> n - on_track])

_calculate_team_summary(team_members) ==
    LET n == Len(team_members)
        vals == [i \in 1..n |-> Attainment(team_members[i])]
        total == SumSeq([i \in 1..n |-> vals[i].N])
        on_track == Cardinality({i \in 1..n : vals[i].N >= OnTrackThreshold})
    IN  IF n = 0 THEN Return(ZeroSummary)
        ELSE IF \E i \in 1..n : ~IsNumber(vals[i]) THEN Raise("TypeError")
        ELSE Return([total_members |-> n,
                     avg_attainment |-> RoundHalfEven(total, n),
                     members_on_track |-> on_track,
                     members_at_risk |-> n - on_track])

\* float(item.get(k, 0))
FloatOf(item, k) == Get(item, k, Num(0))

_format_metric(item) ==
    LET numeric == {"actual_value", "annual_target", "attainment_percent"}
    IN  IF \E k \in numeric : ~IsNumber(FloatOf(item, k)) THEN Raise("ValueError")
        ELSE Return([metric_name |-> Get(item, "metric_name", ""),
                     display_name |-> Get(item, "display_name", ""),
                     actual_value |-> FloatOf(item, "actual_value").N,
                     annual_target |-> FloatOf(item, "annual_target").N,
                     attainment_percent |->
                         [num |-> FloatOf(item, "attainment_percent").N, den |-> 1],
                     metric_type |-> Get(item, "metric_type", "count")])

\* ------------------------------------------------------------ handlers
StoreUnavailable(detail) ==
    LogEntry("info", "DynamoDB not available, using sample data", detail)

\* Mutant: a scan that raised is tried once more.
_get_users_retry(headers, o) ==
    LET users == IF o.fault THEN <<>> ELSE o.items
        lines == IF o.fault THEN <<StoreUnavailable("ClientError")>> ELSE <<>>
        final == IF users = <<>> THEN _generate_sample_users ELSE users
    IN  Outcome(_success_response([users |-> final], headers), "_get_users",
                IF o.fault THEN 2 ELSE 1, lines)

\* The handler's own except clause (lines 94-96) has nothing to catch: the scan is
\* inside the inner try and json.dumps(default=str) serialises every store value.
_get_users(headers, o) ==
    LET users == IF o.fault THEN <<>> ELSE o.items
        lines == IF o.fault THEN <<StoreUnavailable("ClientError")>> ELSE <<>>
        final == IF users = <<>> THEN _generate_sample_users ELSE users
    IN  Outcome(_success_response([users |-> final], headers), "_get_users", 1, lines)

_get_user_dashboard(user_alias, headers, o) ==
    LET metrics_items == o.items
        formatted == [i \in 1..Len(metrics_items) |-> _format_metric(metrics_items[i])]
        format_fault == \E i \in 1..Len(formatted) : formatted[i].raised
        user_info == _get_user_info(user_alias)
        from_store == ~o.fault /\ metrics_items # <<>> /\ ~format_fault
        lines == IF o.fault THEN <<StoreUnavailable("ClientError")>>
                 ELSE IF metrics_items # <<>> /\ format_fault
                      THEN <<StoreUnavailable("ValueError")>>
                 ELSE <<>>
        sample == _generate_user_dashboard(user_alias)
    IN  IF from_store
        THEN Outcome(_success_response(
                         [user_alias |-> user_info.user_alias,
                          user_name |-> user_info.user_name,
                          job_title |-> user_info.job_title,
                          staff_level |-> user_info.staff_level,
                          supervisor |-> user_info.supervisor,
                          metrics |-> [i \in 1..Len(formatted) |-> formatted[i].value]],
                         headers), "_get_user_dashboard", 1, lines)
        ELSE IF sample.raised
        THEN Outcome(_error_response(500, "Failed to retrieve dashboard data", headers),
                     "_get_user_dashboard", 1,
                     lines \o <<LogEntry("error", "Error getting dashboard", sample.exc)>>)
        ELSE Outcome(_success_response(sample.value, headers), "_get_user_dashboard", 1, lines)

\* Mutant: the handler answers with the exception's text.
_get_team_dashboard_leak(manager_alias, headers, o, seed) ==
    LET stored == IF o.fault THEN <<>> ELSE o.items
        team_members == IF stored = <<>> THEN _generate_sample_team(manager_alias, seed)
                        ELSE stored
        team_summary == _calculate_team_summary(team_members)
    IN  IF team_summary.raised
        THEN Outcome(_error_response(500, team_summary.exc, headers),
                     "_get_team_dashboard", 1,
                     <<LogEntry("error", "Error getting team dashboard", team_summary.exc)>>)
        ELSE Outcome(_success_response(
                         [manager_alias |-> manager_alias,
                          team_summary |-> team_summary.value,
                          team_members |-> team_members],
                         headers), "_get_team_dashboard", 1, <<>>)

_get_team_dashboard(manager_alias, headers, o, seed) ==
    LET stored == IF o.fault THEN <<>> ELSE o.items
        team_members == IF stored = <<>> THEN _generate_sample_team(manager_alias, seed)
                        ELSE stored
        team_summary == _calculate_team_summary(team_members)
    IN  IF team_summary.raised
        THEN Outcome(_error_response(500, "Failed to retrieve team data", headers),
                     "_get_team_dashboard", 1,
                     <<LogEntry("error", "Error getting team dashboard", team_summary.exc)>>)
        ELSE Outcome(_success_response(
                         [manager_alias |-> manager_alias,
                          team_summary |-> team_summary.value,
                          team_members |-> team_members],
                         headers), "_get_team_dashboard", 1, <<>>)

\* ------------------------------------------------------------- router
\* event.get('httpMethod', 'GET'), event.get('path', '')
HttpMethod(ev) == IF ev.httpMethod = NoKey THEN "GET" ELSE ev.httpMethod
Path(ev) == IF ev.path = <<>> THEN <<"">> ELSE ev.path

UsersPath == <<"", "api", "users">>
DashboardDir == <<"", "api", "dashboard">>
TeamDashboardDir == <<"", "api", "team-dashboard">>

\* Mutant: the prefix is tested without its trailing '/'.
StartsWithDir_NoSlash(path, dir) ==
    Len(path) >= Len(dir) /\ SubSeq(path, 1, Len(dir)) = dir

\* path.startswith(dir + '/')
StartsWithDir(path, dir) ==
    Len(path) > Len(dir) /\ SubSeq(path, 1, Len(dir)) = dir

\* path.split('/')[-1]
LastSegment(path) == path[Len(path)]

Unhandled(exc, headers) ==
    Outcome(_error_response(500, "Internal server error", headers), "none", 0,
            <<LogEntry("error", "Error processing request", exc)>>)

lambda_handler(ev, o, seed) ==
    LET http_method == HttpMethod(ev)
        path == Path(ev)
        headers == CorsHeaders
    IN  IF ~ev.isDict THEN Unhandled("AttributeError", {})
        ELSE IF http_method = "OPTIONS"
        THEN Outcome([statusCode |-> 200, headers |-> headers, body |-> EmptyBody],
                     "none", 0, <<>>)
        ELSE IF ~ev.pathIsStr THEN Unhandled("AttributeError", headers)
        ELSE IF path = UsersPath /\ http_method = "GET"
        THEN _get_users(headers, o)
        ELSE IF StartsWithDir(path, DashboardDir) /\ http_method = "GET"
        THEN _get_user_dashboard(LastSegment(path), headers, o)
        ELSE IF StartsWithDir(path, TeamDashboardDir) /\ http_method = "GET"
        THEN _get_team_dashboard(LastSegment(path), headers, o, seed)
        ELSE Outcome(_error_response(404, "Endpoint not found", headers), "none", 0, <<>>)

\* ------------------------------------------------------- state machine
VARIABLES
    event,       \* the request event the client holds
    strHash,     \* this process's hash() of the strings it hashes
    handled,     \* whether lambda_handler has answered `event`
    store,       \* what the store call of that invocation did
    response,    \* the response of that invocation
    handler,     \* the handler the router dispatched that invocation to
    storeReads,  \* the store reads that invocation issued
    log,         \* the log lines that invocation wrote
    summaryIn,   \* a list of team members handed to _calculate_team_summary
    summaryOut   \* what _calculate_team_summary made of it

vars == <<event, strHash, handled, store, response, handler, storeReads, log,
          summaryIn, summaryOut>>

NotComputed == [raised |-> FALSE]

\* The event {}.
EmptyEvent == [isDict |-> TRUE, httpMethod |-> NoKey, pathIsStr |-> TRUE, path |-> <<>>]
\* An event that is no mapping (a JSON list, number or null payload).
NonDictEvent == [isDict |-> FALSE, httpMethod |-> NoKey, pathIsStr |-> TRUE, path |-> <<>>]

NoResponse == [statusCode |-> 0, headers |-> {}, body |-> EmptyBody]

\* The store call a request leads to, if its handler is reached.
TableRead(ev) ==
    IF ~ev.isDict \/ ~ev.pathIsStr \/ HttpMethod(ev) # "GET" THEN "none"
    ELSE IF Path(ev) = UsersPath THEN "users.scan"
    ELSE IF StartsWithDir(Path(ev), DashboardDir) THEN "metrics.query"
    ELSE IF StartsWithDir(Path(ev), TeamDashboardDir) THEN "users.scan.supervisor"
    ELSE "none"

StoreOutcomes(ev) ==
    CASE TableRead(ev) = "users.scan" ->
             {StoreFault} \cup {StoreItems(l) : l \in UserItemLists}
      [] TableRead(ev) = "metrics.query" ->
             {StoreFault} \cup {StoreItems(l) : l \in MetricItemLists}
      [] TableRead(ev) = "users.scan.supervisor" ->
             {StoreFault} \cup {StoreItems(l) : l \in TeamItemLists}
      [] OTHER -> {NoRead}

Fresh ==
    /\ handled' = FALSE
    /\ store' = NoRead
    /\ response' = NoResponse
    /\ handler' = "none"
    /\ storeReads' = 0
    /\ log' = <<>>

Init ==
    /\ event = EmptyEvent
    /\ strHash \in HashSeeds
    /\ handled = FALSE
    /\ store = NoRead
    /\ response = NoResponse
    /\ handler = "none"
    /\ storeReads = 0
    /\ log = <<>>
    /\ summaryIn = <<>>
    /\ summaryOut = NotComputed

\* The client prepares its next request.
NewEvent ==
    /\ handled \/ event = EmptyEvent
    /\ event' \in {EmptyEvent, NonDictEvent}
    /\ event' # event \/ handled
    /\ Fresh
    /\ UNCHANGED <<strHash, summaryIn, summaryOut>>

SetMethod(m) ==
    /\ ~handled
    /\ event.isDict
    /\ event.httpMethod # m
    /\ event' = [event EXCEPT !.httpMethod = m]
    /\ Fresh
    /\ UNCHANGED <<strHash, summaryIn, summaryOut>>

AppendSegment(s) ==
    /\ ~handled
    /\ event.isDict /\ event.pathIsStr
    /\ Len(event.path) < MaxSegs
    /\ event.path = <<>> => s \in FirstSegments
    /\ event' = [event EXCEPT !.path = Append(@, s)]
    /\ Fresh
    /\ UNCHANGED <<strHash, summaryIn, summaryOut>>

\* 'path': null
NullPath ==
    /\ ~handled
    /\ event.isDict /\ event.pathIsStr
    /\ event.path = <<>>
    /\ event' = [event EXCEPT !.pathIsStr = FALSE, !.path = <<>>]
    /\ Fresh
    /\ UNCHANGED <<strHash, summaryIn, summaryOut>>

\* One invocation of the Lambda entry point on the event, with the store
\* behaving in one of the ways it can.
Handle(o) ==
    LET r == lambda_handler(event, o, strHash)
    IN  /\ handled' = TRUE
        /\ response' = r.response
        /\ handler' = r.handler
        /\ storeReads' = r.reads
        /\ log' = r.log
        /\ store' = IF r.reads = 0 THEN NoRead ELSE o
        /\ UNCHANGED <<event, strHash, summaryIn, summaryOut>>

Invoke(o) ==
    /\ ~handled
    /\ Handle(o)

\* The client sends the request it sent last once more, and the store does what
\* it did for the last one.
Reinvoke ==
    /\ handled
    /\ Handle(store)

\* The next invocation runs in a new execution environment: a new interpreter
\* process, with its own hash seed.
ColdStart ==
    /\ handled
    /\ strHash' \in HashSeeds \ {strHash}
    /\ UNCHANGED <<event, handled, store, response, handler, storeReads, log,
                   summaryIn, summaryOut>>

Next ==
    \/ NewEvent
    \/ \E m \in Methods : SetMethod(m)
    \/ \E s \in Segments : AppendSegment(s)
    \/ NullPath
    \/ \E o \in StoreOutcomes(event) : Invoke(o)
    \/ Reinvoke
    \/ ColdStart

Spec == Init /\ [][Next]_vars

\* ------------------------------------- _calculate_team_summary on its own
\* Every list of up to MaxList team members, the empty one included (the handler
\* never passes it: it substitutes the sample team first).
SummaryLists == BoundedSeq(TeamItems, MaxList)

InitSummary ==
    /\ event = EmptyEvent
    /\ strHash = [a \in SampleTeamAliases |-> 0]
    /\ handled = FALSE
    /\ store = NoRead
    /\ response = NoResponse
    /\ handler = "none"
    /\ storeReads = 0
    /\ log = <<>>
    /\ summaryIn \in SummaryLists
    /\ summaryOut = NotComputed

Summarize ==
    /\ summaryOut = NotComputed
    /\ summaryOut' = _calculate_team_summary(summaryIn)
    /\ UNCHANGED <<event, strHash, handled, store, response, handler, storeReads, log,
                   summaryIn>>

NextSummary == Summarize

SpecSummary == InitSummary /\ [][NextSummary]_vars

\* ------------------------------------------------------------ the claims
Status == response.statusCode
\* The JSON document of the response body.
Doc == response.body[1]
ReqMethod == HttpMethod(event)
ReqPath == Path(event)
\* The store call of the last invocation raised, or returned no items.
FellBack == store.read /\ (store.fault \/ store.items = <<>>)

FullCorsSet ==
    {<<"Content-Type", "application/json">>,
     <<"Access-Control-Allow-Origin", "*">>,
     <<"Access-Control-Allow-Methods", "GET, POST, OPTIONS">>,
     <<"Access-Control-Allow-Headers", "Content-Type, Authorization">>}

\* C1: every response lambda_handler returns, a 500 raised before the headers
\* map exists included, carries the full CORS header set.
C1_EveryResponseCarriesCors ==
    handled => response.headers = FullCorsSet

\* The routing table of the specification, on the path's segments.
UnderApi(p, name) ==
    Len(p) >= 4 /\ p[1] = "" /\ p[2] = "api" /\ p[3] = name

TableEntry(m, p) ==
    IF m = "OPTIONS" THEN "preflight"
    ELSE IF m = "GET" /\ p = <<"", "api", "users">> THEN "users"
    ELSE IF m = "GET" /\ UnderApi(p, "dashboard") THEN "user dashboard"
    ELSE IF m = "GET" /\ UnderApi(p, "team-dashboard") THEN "team dashboard"
    ELSE "not found"

Dispatched ==
    CASE handler = "_get_users" -> "users"
      [] handler = "_get_user_dashboard" -> "user dashboard"
      [] handler = "_get_team_dashboard" -> "team dashboard"
      [] handler = "none" /\ Status = 200 /\ response.body = <<>> /\ storeReads = 0 ->
             "preflight"
      [] handler = "none" /\ Status = 404 /\ storeReads = 0
         /\ response.body = <<[error |-> "Endpoint not found"]>> -> "not found"
      [] OTHER -> "something else"

\* C2: for every method and every path string the router's outcome is the one
\* the routing table names: OPTIONS gives 200 with an empty body and no store
\* read, GET /api/users the users handler, GET /api/dashboard/... the user
\* dashboard handler, GET /api/team-dashboard/... the team dashboard handler,
\* and everything else 404 "Endpoint not found" with no store read.
C2_RoutingTable ==
    (handled /\ event.isDict /\ (event.pathIsStr \/ ReqMethod = "OPTIONS"))
        => Dispatched = TableEntry(ReqMethod, ReqPath)

\* GET /api/users/ (a trailing slash) was answered 404.
C2_Witness ==
    /\ handled /\ ReqMethod = "GET"
    /\ ReqPath = <<"", "api", "users", "">>
    /\ Status = 404 /\ storeReads = 0

\* C3: when the store read of one of the three GET endpoints raises or returns
\* no items, the response is 200 and never 500, and for /api/users its body
\* is the three sample users jsmith, mjohnson, rbrown in that order.
C3_StoreFaultNeverSurfaced ==
    (handled /\ FellBack) =>
        /\ Status = 200
        /\ handler = "_get_users" =>
               /\ Len(Doc.users) = 3
               /\ Doc.users[1].alias = "jsmith"
               /\ Doc.users[2].alias = "mjohnson"
               /\ Doc.users[3].alias = "rbrown"

\* The faults of the last invocation that are not store-access faults.
OtherFaults == {i \in 1..Len(log) : log[i].detail # "ClientError"}

GenericMessage(h) ==
    CASE h = "none" -> "Internal server error"
      [] h = "_get_users" -> "Failed to retrieve users"
      [] h = "_get_user_dashboard" -> "Failed to retrieve dashboard data"
      [] h = "_get_team_dashboard" -> "Failed to retrieve team data"

MetricNames == <<"revenue_target", "customer_engagements", "win_rate">>
MetricTargets == <<1000000, 50, 70>>

\* C5: the fallback user dashboard holds exactly the three metrics
\* revenue_target, customer_engagements, win_rate (targets 1000000, 50, 70), each
\* with actual_value = floor(target * (0.75 + variation * 0.5)) for
\* variation = (hash(alias) mod 30) / 100, attainment_percent =
\* actual_value / annual_target * 100, and attainment_percent within 75..90.
C5_FallbackDashboardMetrics ==
    (handled /\ handler = "_get_user_dashboard" /\ FellBack /\ Status = 200) =>
        LET k == HashMod(MD5Prefix(LastSegment(ReqPath)), 30)
            ms == Doc.metrics
        IN  /\ Len(ms) = 3
            /\ \A i \in 1..3 :
                 /\ ms[i].metric_name = MetricNames[i]
                 /\ ms[i].annual_target = MetricTargets[i]
                 \* floor(t * (0.75 + k/200)) = floor(t * (150 + k) / 200)
                 /\ 200 * ms[i].actual_value <= MetricTargets[i] * (150 + k)
                 /\ 200 * (ms[i].actual_value + 1) > MetricTargets[i] * (150 + k)
                 \* the ratio actual_value * 100 : annual_target
                 /\ ms[i].attainment_percent.num = ms[i].actual_value * 100
                 /\ ms[i].attainment_percent.den = ms[i].annual_target
                 /\ 75 * ms[i].attainment_percent.den <= ms[i].attainment_percent.num
                 /\ ms[i].attainment_percent.num <= 90 * ms[i].attainment_percent.den

\* C6: two requests with the same method and path that both fall back to the
\* synthetic data receive the same response body, wherever in a sequence of
\* requests they stand.
C6_SameRequestSameBody ==
    [][(handled /\ handled' /\ event' = event /\ FellBack /\ FellBack')
          => response'.body = response.body]_vars

\* C7: _calculate_team_summary returns four zeros for the empty list; for a
\* non-empty list of team members it returns total_members = the length,
\* avg_attainment = the mean of overall_attainment rounded to one decimal,
\* members_on_track = the number of members at 80 or more, and
\* members_at_risk = total_members - members_on_track.
C7_TeamSummary ==
    LET L == summaryIn
        n == Len(L)
        r == summaryOut.value
        total == SumSeq([i \in 1..n |-> L[i].overall_attainment.N])
    IN  (/\ summaryOut # NotComputed
         /\ \A i \in 1..n : "overall_attainment" \in DOMAIN L[i]
                            /\ DOMAIN L[i].overall_attainment = {"N"})
        => /\ ~summaryOut.raised
           /\ n = 0 => /\ r.total_members = 0 /\ r.avg_attainment = 0
                       /\ r.members_on_track = 0 /\ r.members_at_risk = 0
           /\ n > 0 =>
                /\ r.total_members = n
                \* in tenths: the tenth nearest to total / n
                /\ 2 * (n * r.avg_attainment - total) <= n
                /\ 2 * (total - n * r.avg_attainment) <= n
                /\ r.members_on_track =
                       Cardinality({i \in 1..n : L[i].overall_attainment.N >= 800})
                /\ r.members_at_risk = r.total_members - r.members_on_track
           /\ r.members_on_track + r.members_at_risk = r.total_members

\* The members at 79.9 and 80.0: one on track, one at risk, the mean 79.95
\* rounded to 80.0.
C7_Witness ==
    /\ summaryOut # NotComputed
    /\ summaryIn = <<[alias |-> "akim", overall_attainment |-> [N |-> 799]],
                     [alias |-> "akim", overall_attainment |-> [N |-> 800]]>>
    /\ summaryOut.value.members_on_track = 1
    /\ summaryOut.value.members_at_risk = 1
    /\ summaryOut.value.avg_attainment = 800

\* C8: one request reads the store at most once and never again after a fault
\* or an empty result; OPTIONS and unmatched requests read it not at all.
C8_AtMostOneStoreRead ==
    handled =>
        /\ storeReads \in {0, 1}
        /\ (ReqMethod = "OPTIONS" \/ Status = 404) => storeReads = 0
        /\ handler # "none" => storeReads = 1
        /\ FellBack => storeReads = 1

\* The users scan raised, was not repeated, and the sample users were served.
C8_Witness ==
    /\ handled /\ handler = "_get_users"
    /\ store.fault /\ storeReads = 1 /\ Status = 200

\* C9: when the team store read raises or returns no items, the team dashboard
\* is 200 with manager_alias the requested alias, team_members the sample users
\* jsmith and mjohnson whatever the alias, each with overall_attainment in
\* 85..104, metrics_count 3, on_track_metrics 2, at_risk_metrics 1, and a
\* summary of 2 members, 2 on track, 0 at risk.
C9_FallbackTeamDashboard ==
    (handled /\ handler = "_get_team_dashboard" /\ FellBack) =>
        /\ Status = 200
        /\ Doc.manager_alias = ReqPath[Len(ReqPath)]
        /\ Len(Doc.team_members) = 2
        /\ Doc.team_members[1].user_alias = "jsmith"
        /\ Doc.team_members[2].user_alias = "mjohnson"
        /\ \A i \in 1..2 :
             /\ Doc.team_members[i].overall_attainment.N \in 850..1040
             /\ Doc.team_members[i].metrics_count = 3
             /\ Doc.team_members[i].on_track_metrics = 2
             /\ Doc.team_members[i].at_risk_metrics = 1
        /\ Doc.team_summary.total_members = 2
        /\ Doc.team_summary.members_on_track = 2
        /\ Doc.team_summary.members_at_risk = 0

\* GET /api/team-dashboard/mjohnson with the store down: both sample members,
\* at the two ends of the attainment range.
C9_Witness ==
    /\ handled /\ handler = "_get_team_dashboard" /\ store.fault
    /\ ReqPath = <<"", "api", "team-dashboard", "mjohnson">>
    /\ Status = 200
    /\ Doc.team_members[1].overall_attainment.N = 1040
    /\ Doc.team_members[2].overall_attainment.N = 850

SampleIdentity(alias) ==
    CASE alias = "mjohnson" ->
             [user_alias |-> "mjohnson", user_name |-> "Mary Johnson",
              job_title |-> "Principal Solutions Architect", staff_level |-> "L7",
              supervisor |-> "manager1"]
      [] alias = "rbrown" ->
             [user_alias |-> "rbrown", user_name |-> "Robert Brown",
              job_title |-> "Solutions Architect", staff_level |-> "L5",
              supervisor |-> "manager2"]
      [] OTHER ->
             [user_alias |-> "jsmith", user_name |-> "John Smith",
              job_title |-> "Senior Solutions Architect", staff_level |-> "L6",
              supervisor |-> "manager1"]

\* C10: for GET /api/dashboard/{alias} the alias is the last '/'-separated
\* segment of the path (the empty string after a trailing '/'), and the identity
\* fields of the 200 response are those of the sample user of that alias, or of
\* jsmith when there is none, with the metrics from the store or from the
\* fallback alike; user_alias is one of jsmith, mjohnson, rbrown and is the
\* requested alias only when that is one of the three.
C10_DashboardIdentity ==
    (handled /\ handler = "_get_user_dashboard" /\ Status = 200) =>
        LET alias == ReqPath[Len(ReqPath)]
            who == SampleIdentity(alias)
        IN  /\ Doc.user_alias = who.user_alias
            /\ Doc.user_name = who.user_name
            /\ Doc.job_title = who.job_title
            /\ Doc.staff_level = who.staff_level
            /\ Doc.supervisor = who.supervisor
            /\ Doc.user_alias \in {"jsmith", "mjohnson", "rbrown"}
            /\ Doc.user_alias = alias <=> alias \in {"jsmith", "mjohnson", "rbrown"}

\* GET /api/dashboard/ (the empty alias) answered from the store's metrics
\* with jsmith's identity.
C10_Witness ==
    /\ handled /\ handler = "_get_user_dashboard" /\ Status = 200
    /\ ReqPath = <<"", "api", "dashboard", "">>
    /\ store.read /\ ~FellBack
    /\ Doc.user_alias = "jsmith"
    /\ Doc.metrics[1].metric_name = "win_rate"
====
